---------------------------- MODULE Spec2Model ----------------------------
(***************************************************************************)
(* Model of the forecasting subsystem of the Madrid housing portal         *)
(* (app/services/forecasting.py, app/database.py, app/models/housing.py),  *)
(* of the run-all route (app/api/routes.py) and of the demo seeding        *)
(* (app/data/pipeline.py).                                                 *)
(*                                                                         *)
(* Money is kept in integer cents: a Python value round(x, 2) is the       *)
(* integer 100*x.  Observed prices are whole euros.  The least-squares fit *)
(* of _linear_forecast is computed exactly over the rationals; the         *)
(* residual standard deviation is resolved to a tenth of a cent.  The      *)
(* SARIMAX library is an oracle: what it returns for a district's series   *)
(* (or that it raises) is part of the state.                               *)
(***************************************************************************)
EXTENDS Integers, Sequences, FiniteSets, TLC

VARIABLES
    sale_prices,      \* district id -> sequence of "all" SalePrice rows, ordered by period
    sarimax,          \* district id -> what the SARIMAX fit yields for that series
    price_forecasts,  \* committed rows of the price_forecasts table
    clock,            \* logical time: the number of committed write transactions
    call,             \* the last service call: arguments, outcome, table before it
    background_tasks, \* the periods arguments of the queued forecast_all_districts runs
    sessions,         \* worker -> the forecast_district call it is running in its own session
    district_table,   \* ids of the committed rows of the districts table
    seed,             \* the seed_demo_data run: position, session, outcome
    scheduler_enabled, \* settings.scheduler_enabled
    schedulers        \* the BackgroundScheduler objects created so far; _scheduler is the last

vars == <<sale_prices, sarimax, price_forecasts, clock, call,
          background_tasks, sessions, district_table, seed,
          scheduler_enabled, schedulers>>

\* what a service call made by a caller leaves alone
elsewhere == <<background_tasks, sessions, district_table, seed,
               scheduler_enabled, schedulers>>

----------------------------------------------------------------------------
(* Bounds of the model *)

NumDistricts == 2
MaxPeriods == 2
MaxPrice == 3
MaxShortLen == 5
MaxOps == 2

(* Program constants *)

\* variant: the seasonal fit is attempted from 11 points on
MIN_POINTS_SARIMA_eleven == 12 - 1

MIN_POINTS_SARIMA == 12
\* variant: 3 points are taken as enough
MIN_POINTS_three == 4 - 1

MIN_POINTS == 4
CONFIDENCE == 95
W_SARIMA == 65
Z196 == 196

----------------------------------------------------------------------------
(* Arithmetic helpers *)

Abs(x) == IF x < 0 THEN 0 - x ELSE x

RECURSIVE GCD(_, _)
GCD(a, b) == IF b = 0 THEN Abs(a) ELSE GCD(b, a % b)

LCM(a, b) == (a \div GCD(a, b)) * b

\* Python round(): nearest integer, ties to even, of  whole + num/den  (den > 0, num >= 0)
RoundHalfEven(whole, num, den) ==
    LET base == whole + (num \div den)
        rem  == num % den
    IN  IF 2 * rem < den THEN base
        ELSE IF 2 * rem > den THEN base + 1
        ELSE IF base % 2 = 0 THEN base ELSE base + 1

\* floor of  whole + num/den
FloorOf(whole, num, den) == whole + (num \div den)

RECURSIVE SqrtBetween(_, _, _)
SqrtBetween(lo, hi, v) ==
    IF hi - lo <= 1 THEN lo
    ELSE LET mid == (lo + hi) \div 2
         IN  IF mid * mid <= v THEN SqrtBetween(mid, hi, v) ELSE SqrtBetween(lo, mid, v)

\* floor of the square root of v >= 0
ISqrt(v) == SqrtBetween(0, 46340, v)

RECURSIVE SumTo(_, _)
\* f[1] + ... + f[n]
SumTo(f, n) == IF n = 0 THEN 0 ELSE f[n] + SumTo(f, n - 1)


----------------------------------------------------------------------------
(* Periods: pandas.Period with freq="Q" is an ordinal count of quarters *)

PeriodOrdinal(year, quarter) == year * 4 + (quarter - 1)

\* variant: the quarter is the bare remainder
PeriodOf_remainder(ordinal) == [year |-> ordinal \div 4, quarter |-> ordinal % 4]

PeriodOf(ordinal) == [year |-> ordinal \div 4, quarter |-> (ordinal % 4) + 1]

\* Period.__add__:  p + i
PeriodAdd(p, i) == PeriodOf(PeriodOrdinal(p.year, p.quarter) + i)

\* ts.index[-1]
LastPeriod(ts) == [year |-> ts[Len(ts)].year, quarter |-> ts[Len(ts)].quarter]

_next_periods(ts, n) == [i \in 1..n |-> PeriodAdd(LastPeriod(ts), i)]

----------------------------------------------------------------------------
(* Input series.  An observation is a SalePrice row of the "all" series;   *)
(* a series is a sequence of observations in consecutive quarters.         *)

\* every price sequence of 3..MaxShortLen points over 1..MaxPrice
ShortValues == UNION {[1..n -> 1..MaxPrice] : n \in 3..MaxShortLen}

\* a falling and a rising ramp with a yearly bump, 1 <= n <= 13
Ramp(shape, bump, n) ==
    [i \in 1..n |-> (IF shape = "falling" THEN 14 - i ELSE 1 + i)
                      + (IF i % 4 = 0 THEN bump ELSE 0)]

LongValues ==
    {Ramp(shape, bump, n) :
        shape \in {"falling", "rising"}, bump \in {0, 1},
        n \in 11..13}

SeriesValues == ShortValues \cup LongValues

\* n consecutive quarterly observations starting at (year, quarter)
Observations(vals, year, quarter) ==
    [i \in 1..Len(vals) |->
        [year         |-> year + ((quarter + i - 2) \div 4),
         quarter      |-> ((quarter + i - 2) % 4) + 1,
         price_per_m2 |-> vals[i]]]

\* ts.values
Values(ts) == [i \in 1..Len(ts) |-> ts[i].price_per_m2]

----------------------------------------------------------------------------
(* Trend model: degree-2 least squares over x = 0..n-1, in the orthogonal  *)
(* basis 1, P1, P2 of that grid, so that the fitted value at x is          *)
(* S0/N0 + S1*P1(x)/N1 + S2*P2(x)/N2 exactly.                              *)

P1(n, x) == 2 * x - (n - 1)

P2(n, x) == 3 * P1(n, x) * P1(n, x) - (n * n - 1)

\* variant: round without max(0, .)
ClampRound_unclamped(whole, num, den) == RoundHalfEven(whole, num, den)

\* max(0, v) then round(v, 2), for v = whole + num/den cents
ClampRound(whole, num, den) ==
    IF FloorOf(whole, num, den) < 0 THEN 0 ELSE RoundHalfEven(whole, num, den)

Square(x) == x * x

\* round(v, 2), in cents, of  v = A/D euros  (D > 0)
RoundCents(A, D) == RoundHalfEven(100 * (A \div D), 100 * (A % D), D)

\* model.predict at x, as the numerator of a fraction over m.D (euros)
Predict(m, x) ==
    m.S0 * (m.D \div m.n) + m.S1 * P1(m.n, x) * (m.D \div m.N1)
        + m.S2 * P2(m.n, x) * (m.D \div m.N2)

\* the least-squares solution for y over x = 0..n-1, N1 and N2 being the
\* squared norms of P1 and P2 on that grid
Coefficients(y, n, N1, N2) ==
    [n  |-> n, N1 |-> N1, N2 |-> N2, D |-> LCM(LCM(n, N1), N2),
     S0 |-> SumTo(y, n),
     S1 |-> SumTo([i \in 1..n |-> y[i] * P1(n, i - 1)], n),
     S2 |-> SumTo([i \in 1..n |-> y[i] * P2(n, i - 1)], n)]

\* residuals = y - model.predict(X_poly), resolved to the cent
Residual(y, m, i) == RoundCents(y[i] * m.D - Predict(m, i - 1), m.D)

\* sigma = np.std(residuals), in tenths of a cent
Sigma(y, m) ==
    ISqrt((100 * SumTo([i \in 1..m.n |-> Square(Residual(y, m, i))], m.n)) \div m.n)

\* the fitted model m with its interval half-width z * sigma, in cents
WithSpread(y, m) ==
    [n |-> m.n, N1 |-> m.N1, N2 |-> m.N2, D |-> m.D, S0 |-> m.S0, S1 |-> m.S1,
     S2 |-> m.S2,
     zsigma |-> RoundHalfEven(0, Z196 * Sigma(y, m), 1000)]

\* LinearRegression().fit(X_poly, y) and the residual spread of the fit
Fit(y) ==
    WithSpread(y,
               Coefficients(y, Len(y),
                            SumTo([i \in 1..Len(y) |-> Square(P1(Len(y), i - 1))], Len(y)),
                            SumTo([i \in 1..Len(y) |-> Square(P2(Len(y), i - 1))], Len(y))))

\* the fit of every price sequence of the model, as an explicit table
LinearRegression == [y \in SeriesValues |-> Fit(y)] @@ <<>>

\* the forecast dict for one future period; whole + num/model.D is the
\* prediction in cents
TrendRow(period, model, whole, num) ==
    [year               |-> period.year,
     quarter            |-> period.quarter,
     predicted_price_m2 |-> ClampRound(whole, num, model.D),
     lower_bound        |-> ClampRound(whole - model.zsigma, num, model.D),
     upper_bound        |-> RoundHalfEven(whole + model.zsigma, num, model.D),
     confidence_level   |-> CONFIDENCE]

\* the forecast dict for a prediction of A/model.D euros
TrendPoint(period, model, A) ==
    TrendRow(period, model, 100 * (A \div model.D), 100 * (A % model.D))

\* the rows of the fitted model for the future periods
TrendRows(future_periods, model, n) ==
    [i \in 1..Len(future_periods) |->
        TrendPoint(future_periods[i], model, Predict(model, n + i - 1))]

_linear_forecast(ts, periods) ==
    TrendRows(_next_periods(ts, periods), LinearRegression[Values(ts)], Len(ts))

----------------------------------------------------------------------------
(* Seasonal model.  The SARIMAX fit either raises or yields, for step i    *)
(* (0-based), a mean and a symmetric interval; the oracle values are in    *)
(* tenths of a cent.                                                       *)

SarimaxRaises == [raises |-> TRUE, mean |-> 0, drift |-> 0, half |-> 0]

SarimaxResults ==
    {[raises |-> FALSE, mean |-> 2505, drift |-> 0 - 2000, half |-> 405],
     [raises |-> FALSE, mean |-> 3125, drift |-> 135, half |-> 405]}

SarimaxOutcomes == {SarimaxRaises} \cup SarimaxResults

\* the forecast dict for one future period, from the mean and the interval
\* of the fitted model's forecast (tenths of a cent)
SarimaxRow(period, mean, ci0, ci1) ==
    [year               |-> period.year,
     quarter            |-> period.quarter,
     predicted_price_m2 |-> ClampRound(mean \div 10, mean % 10, 10),
     lower_bound        |-> ClampRound(ci0 \div 10, ci0 % 10, 10),
     upper_bound        |-> RoundHalfEven(ci1 \div 10, ci1 % 10, 10),
     confidence_level   |-> CONFIDENCE]

\* step i of the forecast: its mean and its confidence interval
SarimaxPoint(period, mean, half) == SarimaxRow(period, mean, mean - half, mean + half)

\* the rows built from the fitted model's forecast (the body of the try)
SarimaxRows(ts, periods, lib) ==
    [i \in 1..periods |->
        SarimaxPoint(_next_periods(ts, periods)[i],
                     lib.mean + lib.drift * (i - 1), lib.half * i)]

\* variant: a failed fit yields no rows instead of the trend rows
_sarima_forecast_no_fallback(ts, periods, lib) ==
    IF lib.raises THEN <<>> ELSE SarimaxRows(ts, periods, lib)

_sarima_forecast(ts, periods, lib) ==
    IF lib.raises THEN _linear_forecast(ts, periods) ELSE SarimaxRows(ts, periods, lib)

----------------------------------------------------------------------------
(* Ensemble *)

Min(a, b) == IF a < b THEN a ELSE b

\* variant: the linear weight is 0.3 whatever w_sarima is
Blend_fixed_linear(lin, sar, w_sarima) ==
    LET v == 30 * lin + w_sarima * sar
    IN  RoundHalfEven(v \div 100, v % 100, 100)

\* variant: the two weights change places
Blend_swapped(lin, sar, w_sarima) ==
    LET v == w_sarima * lin + (100 - w_sarima) * sar
    IN  RoundHalfEven(v \div 100, v % 100, 100)

\* round(w_linear * lin + w_sarima * sar, 2)
Blend(lin, sar, w_sarima) ==
    LET w_linear == 100 - w_sarima
        v == w_linear * lin + w_sarima * sar
    IN  RoundHalfEven(v \div 100, v % 100, 100)

\* variant: the level of a point is the seasonal weight
_ensemble_forecast_weight_level(linear, sarima) ==
    [i \in 1..Min(Len(linear), Len(sarima)) |->
        [year               |-> linear[i].year,
         quarter            |-> linear[i].quarter,
         predicted_price_m2 |-> Blend(linear[i].predicted_price_m2,
                                      sarima[i].predicted_price_m2, W_SARIMA),
         lower_bound        |-> Blend(linear[i].lower_bound, sarima[i].lower_bound, W_SARIMA),
         upper_bound        |-> Blend(linear[i].upper_bound, sarima[i].upper_bound, W_SARIMA),
         confidence_level   |-> W_SARIMA]]

_ensemble_forecast(linear, sarima) ==
    [i \in 1..Min(Len(linear), Len(sarima)) |->
        [year               |-> linear[i].year,
         quarter            |-> linear[i].quarter,
         predicted_price_m2 |-> Blend(linear[i].predicted_price_m2,
                                      sarima[i].predicted_price_m2, W_SARIMA),
         lower_bound        |-> Blend(linear[i].lower_bound, sarima[i].lower_bound, W_SARIMA),
         upper_bound        |-> Blend(linear[i].upper_bound, sarima[i].upper_bound, W_SARIMA),
         confidence_level   |-> linear[i].confidence_level]]

----------------------------------------------------------------------------
(* Tables.  District ids are 1..NumDistricts, in insertion (id) order;     *)
(* each carries the code of MADRID_DISTRICTS at its position.              *)

MADRID_DISTRICTS ==
    <<"01", "02", "03", "04", "05", "06", "07", "08", "09", "10", "11",
      "12", "13", "14", "15", "16", "17", "18", "19", "20", "21">>

DistrictIds == 1..NumDistricts

Code(district) == MADRID_DISTRICTS[district]

UnknownCode == "99"

RequestCodes == {Code(d) : d \in DistrictIds} \cup {UnknownCode}

\* variant: a code that matches no district yields the first district
DistrictByCode_or_first(district_code) ==
    IF \E d \in DistrictIds : Code(d) = district_code
    THEN CHOOSE d \in DistrictIds : Code(d) = district_code
    ELSE 1

\* db.query(District).filter_by(code=district_code).first(); 0 stands for None
DistrictByCode(district_code) ==
    IF \E d \in DistrictIds : Code(d) = district_code
    THEN CHOOSE d \in DistrictIds : Code(d) = district_code
    ELSE 0

\* the columns of the unique constraint uq_forecast
uq_forecast(r) == <<r.district_id, r.forecast_year, r.forecast_quarter, r.model_name>>

\* A session: the persistent rows as the session sees them (with its own
\* unflushed attribute changes) and the pending new rows (autoflush=False:
\* queries do not see them).
SessionLocal(table) == [tbl |-> table, new |-> <<>>]

\* flush + commit: inserting a pending row whose uq_forecast columns are
\* already taken raises IntegrityError
IntegrityError(db) ==
    \E i \in 1..Len(db.new) :
        \/ \E r \in db.tbl : uq_forecast(r) = uq_forecast(db.new[i])
        \/ \E j \in 1..(i - 1) : uq_forecast(db.new[j]) = uq_forecast(db.new[i])

Flushed(db) == db.tbl \cup {db.new[i] : i \in 1..Len(db.new)}

----------------------------------------------------------------------------
(* Persistence *)

\* variant: always db.add, without looking for an existing row
_save_forecast_insert(db, district_id, model_name, row, now) ==
    [db EXCEPT !.new = Append(db.new,
        [district_id        |-> district_id,
         model_name         |-> model_name,
         forecast_year      |-> row.year,
         forecast_quarter   |-> row.quarter,
         predicted_price_m2 |-> row.predicted_price_m2,
         lower_bound        |-> row.lower_bound,
         upper_bound        |-> row.upper_bound,
         confidence_level   |-> row.confidence_level,
         generated_at       |-> now])]

\* variant: an existing row is left as it is
_save_forecast_keep_existing(db, district_id, model_name, row, now) ==
    IF \E r \in db.tbl : /\ r.district_id = district_id
                         /\ r.model_name = model_name
                         /\ r.forecast_year = row.year
                         /\ r.forecast_quarter = row.quarter
    THEN db
    ELSE _save_forecast_insert(db, district_id, model_name, row, now)

_save_forecast(db, district_id, model_name, row, now) ==
    LET existing == {r \in db.tbl :
                        /\ r.district_id = district_id
                        /\ r.model_name = model_name
                        /\ r.forecast_year = row.year
                        /\ r.forecast_quarter = row.quarter}
    IN  IF existing # {}
        THEN LET e == CHOOSE r \in existing : TRUE
             IN  [db EXCEPT !.tbl = (db.tbl \ {e}) \cup
                        {[e EXCEPT !.predicted_price_m2 = row.predicted_price_m2,
                                   !.lower_bound = row.lower_bound,
                                   !.upper_bound = row.upper_bound,
                                   !.generated_at = now]}]
        ELSE [db EXCEPT !.new = Append(db.new,
                        [district_id        |-> district_id,
                         model_name         |-> model_name,
                         forecast_year      |-> row.year,
                         forecast_quarter   |-> row.quarter,
                         predicted_price_m2 |-> row.predicted_price_m2,
                         lower_bound        |-> row.lower_bound,
                         upper_bound        |-> row.upper_bound,
                         confidence_level   |-> row.confidence_level,
                         generated_at       |-> now])]

_forecast_to_dict(r) ==
    [year               |-> r.forecast_year,
     quarter            |-> r.forecast_quarter,
     predicted_price_m2 |-> r.predicted_price_m2,
     lower_bound        |-> r.lower_bound,
     upper_bound        |-> r.upper_bound,
     confidence_level   |-> r.confidence_level,
     generated_at       |-> r.generated_at]

----------------------------------------------------------------------------
(* Core forecast logic *)

_load_time_series(district_id) == sale_prices[district_id]

\* variant: only the ensemble rows are persisted
PersistItems_ensemble_only(linear_fc, sarima_fc, ensemble_fc) ==
    [i \in 1..Len(ensemble_fc) |-> [model_name |-> "ensemble", row |-> ensemble_fc[i]]]

\* variant: the sarima rows are left out of the persist loop
PersistItems_without_sarima(linear_fc, sarima_fc, ensemble_fc) ==
    [i \in 1..Len(linear_fc) |-> [model_name |-> "linear", row |-> linear_fc[i]]]
    \o [i \in 1..Len(ensemble_fc) |-> [model_name |-> "ensemble", row |-> ensemble_fc[i]]]

\* the (model_name, row) pairs of the persist loop, in its order
PersistItems(linear_fc, sarima_fc, ensemble_fc) ==
    [i \in 1..Len(linear_fc) |-> [model_name |-> "linear", row |-> linear_fc[i]]]
    \o [i \in 1..Len(sarima_fc) |-> [model_name |-> "sarima", row |-> sarima_fc[i]]]
    \o [i \in 1..Len(ensemble_fc) |-> [model_name |-> "ensemble", row |-> ensemble_fc[i]]]

RECURSIVE SaveItems(_, _, _, _, _, _)
\* runs the persist loop from item k on; failing_save is the index of the
\* item whose statement raises a storage error (0: none)
SaveItems(db, district_id, items, k, failing_save, now) ==
    IF k > Len(items) THEN [db |-> db, raised |-> FALSE]
    ELSE IF k = failing_save THEN [db |-> db, raised |-> TRUE]
    ELSE SaveItems(_save_forecast(db, district_id, items[k].model_name, items[k].row, now),
                   district_id, items, k + 1, failing_save, now)

\* return [{**p, "model": "ensemble", "district_code": district.code} ...],
\* reached when the persist loop did not raise
EnsembleDicts(saved, ensemble_fc, district) ==
    [db     |-> saved.db,
     raised |-> saved.raised,
     rows   |-> IF saved.raised THEN <<>>
                ELSE [i \in 1..Len(ensemble_fc) |->
                        [year               |-> ensemble_fc[i].year,
                         quarter            |-> ensemble_fc[i].quarter,
                         predicted_price_m2 |-> ensemble_fc[i].predicted_price_m2,
                         lower_bound        |-> ensemble_fc[i].lower_bound,
                         upper_bound        |-> ensemble_fc[i].upper_bound,
                         confidence_level   |-> ensemble_fc[i].confidence_level,
                         model              |-> "ensemble",
                         district_code      |-> Code(district)]]]

\* the persist loop over the three forecasts, then the return
Persist(db, district, linear_fc, sarima_fc, ensemble_fc, failing_save, now) ==
    EnsembleDicts(SaveItems(db, district,
                            PersistItems(linear_fc, sarima_fc, ensemble_fc),
                            1, failing_save, now),
                  ensemble_fc, district)

\* from the ensemble on
Ensemble(db, district, linear_fc, sarima_fc, failing_save, now) ==
    Persist(db, district, linear_fc, sarima_fc,
            _ensemble_forecast(linear_fc, sarima_fc), failing_save, now)

\* from the seasonal forecast on: it is attempted from MIN_POINTS_SARIMA points
Sarima(db, district, ts, periods, linear_fc, failing_save, now) ==
    Ensemble(db, district, linear_fc,
             IF Len(ts) >= MIN_POINTS_SARIMA
             THEN _sarima_forecast(ts, periods, sarimax[district])
             ELSE linear_fc,
             failing_save, now)

_forecast_district(db, district, periods, failing_save, now) ==
    IF Len(_load_time_series(district)) < MIN_POINTS
    THEN [db |-> db, raised |-> FALSE, rows |-> <<>>]
    ELSE Sarima(db, district, _load_time_series(district), periods,
                _linear_forecast(_load_time_series(district), periods),
                failing_save, now)

\* variant: what the session holds is written even when the body raised
db_session_no_rollback(body, commit_fails) ==
    IF IntegrityError(body.db)
    THEN [table |-> price_forecasts, raised |-> TRUE]
    ELSE [table |-> Flushed(body.db), raised |-> body.raised \/ commit_fails]

\* leaving "with db_session() as db" after a body that ended in the state
\* body: commit, or rollback and re-raise
db_session(body, commit_fails) ==
    IF body.raised \/ commit_fails \/ IntegrityError(body.db)
    THEN [table |-> price_forecasts, raised |-> TRUE]
    ELSE [table |-> Flushed(body.db), raised |-> FALSE]

----------------------------------------------------------------------------
(* Stored-forecast lookup *)

RECURSIVE OrderByPeriod_descending(_)
\* variant: the latest period first
OrderByPeriod_descending(rows) ==
    IF rows = {} THEN <<>>
    ELSE LET first == CHOOSE r \in rows :
                        \A o \in rows :
                            \/ r.forecast_year > o.forecast_year
                            \/ /\ r.forecast_year = o.forecast_year
                               /\ r.forecast_quarter >= o.forecast_quarter
         IN  <<first>> \o OrderByPeriod_descending(rows \ {first})

RECURSIVE OrderByPeriod(_)
\* order_by(forecast_year, forecast_quarter)
OrderByPeriod(rows) ==
    IF rows = {} THEN <<>>
    ELSE LET first == CHOOSE r \in rows :
                        \A o \in rows :
                            \/ r.forecast_year < o.forecast_year
                            \/ /\ r.forecast_year = o.forecast_year
                               /\ r.forecast_quarter <= o.forecast_quarter
         IN  <<first>> \o OrderByPeriod(rows \ {first})

\* variant: the district filter is never applied
get_stored_forecasts_any_district(table, district_code, model_name) ==
    LET rows == OrderByPeriod({r \in table : r.model_name = model_name})
    IN  [i \in 1..Len(rows) |-> _forecast_to_dict(rows[i])]

\* district_code "" stands for None
get_stored_forecasts(table, district_code, model_name) ==
    LET district == DistrictByCode(district_code)
        query == IF district_code # "" /\ district # 0
                 THEN {r \in table : r.district_id = district}
                 ELSE table
        rows  == OrderByPeriod({r \in query : r.model_name = model_name})
    IN  [i \in 1..Len(rows) |-> _forecast_to_dict(rows[i])]

----------------------------------------------------------------------------
(* Storage faults: the statement of one _save_forecast call, or the        *)
(* commit, raises a database error.                                        *)

NoFault == [at |-> "none", district |-> 0, failing_save |-> 0]

CommitFault == [at |-> "commit", district |-> 0, failing_save |-> 0]

SaveFaults(districts, periods) ==
    {[at |-> "save", district |-> d, failing_save |-> k] :
        d \in districts, k \in {3 * periods}}

NoResults == [c \in {} |-> <<>>]

----------------------------------------------------------------------------
(* Service calls *)

\* the call ends: the table is what the session left, the caller holds the
\* rows (or the result mapping) unless the call raised
Outcome(op, district_code, periods, fault, body, exit) ==
    /\ price_forecasts' = exit.table
    /\ call' = [op |-> op, code |-> district_code,
                periods |-> periods, model |-> "",
                fault |-> fault.at, fault_district |-> fault.district,
                raised |-> exit.raised,
                rows |-> IF exit.raised THEN <<>> ELSE body.rows,
                results |-> IF exit.raised THEN NoResults ELSE body.results,
                before |-> price_forecasts, now |-> clock, status |-> ""]
    /\ clock' = IF exit.table = price_forecasts THEN clock ELSE clock + 1
    /\ UNCHANGED <<sale_prices, sarimax>>

\* the with block of a service call, whose body ended in the state body
WithSession(op, district_code, periods, fault, body) ==
    Outcome(op, district_code, periods, fault, body,
            db_session(body, fault.at = "commit"))

\* the body of forecast_district for the District row found (0: None)
ForecastBody(district, r) ==
    IF district = 0
    THEN [db |-> SessionLocal(price_forecasts), raised |-> FALSE,
          rows |-> <<>>, results |-> NoResults]
    ELSE [db |-> r.db, raised |-> r.raised, rows |-> r.rows, results |-> NoResults]

forecast_district(district_code, periods, fault) ==
    /\ call.op = "none"
    /\ clock < MaxOps
    /\ WithSession("forecast_district", district_code, periods, fault,
                   ForecastBody(DistrictByCode(district_code),
                                _forecast_district(SessionLocal(price_forecasts),
                                                   DistrictByCode(district_code), periods,
                                                   fault.failing_save, clock)))

RECURSIVE ForEachDistrict(_, _, _, _, _, _)
RECURSIVE Collect(_, _, _, _, _, _)
\* the loop of forecast_all_districts from district d on
ForEachDistrict(db, d, results, periods, fault, now) ==
    IF d > NumDistricts
    THEN [db |-> db, raised |-> FALSE, rows |-> <<>>, results |-> results]
    ELSE Collect(_forecast_district(db, d, periods,
                     IF fault.district = d THEN fault.failing_save ELSE 0, now),
                 d, results, periods, fault, now)

\* results[d.code] = r.rows, then the next district; an exception leaves the loop
Collect(r, d, results, periods, fault, now) ==
    IF r.raised
    THEN [db |-> r.db, raised |-> TRUE, rows |-> <<>>, results |-> results]
    ELSE ForEachDistrict(r.db, d + 1, results @@ (Code(d) :> r.rows),
                         periods, fault, now)

forecast_all_districts(periods, fault) ==
    /\ call.op = "none"
    /\ clock < MaxOps
    /\ WithSession("forecast_all_districts", "", periods, fault,
                   ForEachDistrict(SessionLocal(price_forecasts), 1, NoResults,
                                   periods, fault, clock))

ForecastDistrict ==
    \E district_code \in RequestCodes, periods \in 1..MaxPeriods :
        \E fault \in {NoFault, CommitFault}
                     \cup SaveFaults({DistrictByCode(district_code)} \ {0}, periods) :
            /\ forecast_district(district_code, periods, fault)
            /\ UNCHANGED elsewhere

ForecastAllDistricts ==
    \E periods \in 1..MaxPeriods :
        \E fault \in {NoFault, CommitFault} \cup SaveFaults(DistrictIds, periods) :
            /\ forecast_all_districts(periods, fault)
            /\ UNCHANGED elsewhere

\* variant: a lookup that finds nothing generates the forecast
StoredForecasts_or_generate(district_code, model_name) ==
    IF get_stored_forecasts(price_forecasts, district_code, model_name) = <<>>
       /\ clock < MaxOps
    THEN forecast_district(district_code, 1, NoFault)
    ELSE /\ call.op = "none"
         /\ UNCHANGED <<sale_prices, sarimax, price_forecasts, clock, call>>

\* the service call get_stored_forecasts: the session of the read has nothing
\* to flush, its commit leaves the table as it is
StoredForecasts(district_code, model_name) ==
    /\ call.op = "none"
    /\ price_forecasts' =
          db_session([db |-> SessionLocal(price_forecasts), raised |-> FALSE], FALSE).table
    /\ call' = [op |-> "get_stored_forecasts", code |-> district_code,
                periods |-> 0, model |-> model_name,
                fault |-> "none", fault_district |-> 0, raised |-> FALSE,
                rows |-> get_stored_forecasts(price_forecasts, district_code, model_name),
                results |-> NoResults,
                before |-> price_forecasts, now |-> clock, status |-> ""]
    /\ UNCHANGED <<sale_prices, sarimax, clock>>

GetStoredForecasts ==
    \E district_code \in RequestCodes \cup {""},
       model_name \in {"linear", "sarima", "ensemble"} :
        /\ StoredForecasts(district_code, model_name)
        /\ UNCHANGED elsewhere

----------------------------------------------------------------------------
(* Input series *)

FirstYear == 2024

NoCall == [op |-> "none", code |-> "", periods |-> 0, model |-> "",
           fault |-> "none", fault_district |-> 0, raised |-> FALSE,
           rows |-> <<>>, results |-> NoResults, before |-> {}, now |-> 0,
           status |-> ""]

Workers == {"a", "b"}

\* a worker that is running no call
NoSession == [pc |-> "idle", district |-> 0, periods |-> 0, items |-> <<>>,
              saved |-> 0, dirty |-> {}, new |-> <<>>, before |-> {},
              raised |-> FALSE, rows |-> <<>>]

\* seed_demo_data has not been called
NoSeed == [pc |-> "idle", pairs |-> 0, new |-> <<>>, committed |-> {}, raised |-> FALSE]

\* nothing is queued, no worker runs a call, the districts exist, no seeding
Quiet ==
    /\ background_tasks = <<>>
    /\ sessions = [w \in Workers |-> NoSession]
    /\ district_table = DistrictIds
    /\ seed = NoSeed
    /\ scheduler_enabled = TRUE
    /\ schedulers = <<>>

\* three series: too short to forecast, short, and long enough for the seasonal fit
SampleSeries ==
    <<Observations(<<2, 3, 3>>, FirstYear, 2),
      Observations(<<3, 3, 2, 1>>, FirstYear, 1),
      Observations(Ramp("rising", 1, 12), FirstYear, 3)>>

\* the districts hold the sample series in turn, from any of them on, in
\* either order
Init ==
    /\ \E first \in 0..2, step \in 1..2 :
          sale_prices = [d \in DistrictIds |-> SampleSeries[((first + step * d) % 3) + 1]]
    /\ sarimax \in [DistrictIds -> SarimaxOutcomes]
    /\ \A d \in DistrictIds :
          Values(sale_prices[d]) \in ShortValues => sarimax[d] = SarimaxRaises
    /\ price_forecasts = {}
    /\ clock = 0
    /\ call = NoCall
    /\ Quiet

\* the caller has taken the outcome of its call; the service is idle again
Return ==
    /\ call.op # "none"
    /\ call' = NoCall
    /\ UNCHANGED <<sale_prices, sarimax, price_forecasts, clock>>
    /\ UNCHANGED elsewhere

Next ==
    \/ ForecastDistrict
    \/ ForecastAllDistricts
    \/ GetStoredForecasts
    \/ Return

Spec == Init /\ [][Next]_vars

----------------------------------------------------------------------------
(* GET /forecast/{district_code}: the handler looks the stored points of   *)
(* the requested model up and returns them if there are any; otherwise it  *)
(* calls forecast_district and returns its rows.                            *)

\* the handler returns rows, the table being left as table
Responded(district_code, periods, model_name, rows, exit) ==
    /\ price_forecasts' = exit.table
    /\ call' = [op |-> "route_forecast_district", code |-> district_code,
                periods |-> periods, model |-> model_name,
                fault |-> "none", fault_district |-> 0,
                raised |-> exit.raised,
                rows |-> IF exit.raised THEN <<>> ELSE rows,
                results |-> NoResults,
                before |-> price_forecasts, now |-> clock, status |-> ""]
    /\ clock' = IF exit.table = price_forecasts THEN clock ELSE clock + 1
    /\ UNCHANGED <<sale_prices, sarimax>>

\* rows = forecasting.forecast_district(district_code, periods=periods)
Generate(district_code, periods, model_name, body) ==
    Responded(district_code, periods, model_name, body.rows, db_session(body, FALSE))

route_forecast_district(district_code, periods, model_name) ==
    /\ call.op = "none"
    /\ IF get_stored_forecasts(price_forecasts, district_code, model_name) # <<>>
       THEN Responded(district_code, periods, model_name,
                      get_stored_forecasts(price_forecasts, district_code, model_name),
                      db_session([db |-> SessionLocal(price_forecasts), raised |-> FALSE],
                                 FALSE))
       ELSE /\ clock < MaxOps
            /\ Generate(district_code, periods, model_name,
                        ForecastBody(DistrictByCode(district_code),
                                     _forecast_district(SessionLocal(price_forecasts),
                                                        DistrictByCode(district_code),
                                                        periods, 0, clock)))

RouteForecast ==
    \E district_code \in RequestCodes, periods \in 1..MaxPeriods,
       model_name \in {"ensemble", "sarima", "linear"} :
        /\ route_forecast_district(district_code, periods, model_name)
        /\ UNCHANGED elsewhere

RouteNext ==
    \/ RouteForecast
    \/ Return

SpecRoute == Init /\ [][RouteNext]_vars

----------------------------------------------------------------------------
(* POST /forecast/run-all: the handler queues the bulk run as a background *)
(* task and answers; the task runs once the response has gone out.         *)

\* variant: the handler runs the bulk forecast itself before it answers
run_all_forecasts_blocking(periods) ==
    /\ forecast_all_districts(periods, NoFault)
    /\ UNCHANGED elsewhere

run_all_forecasts(periods) ==
    /\ call.op = "none"
    /\ clock + Len(background_tasks) < MaxOps
    /\ background_tasks' = Append(background_tasks, periods)
    /\ call' = [NoCall EXCEPT !.op = "run_all_forecasts", !.periods = periods,
                              !.status = "accepted",
                              !.before = price_forecasts, !.now = clock]
    /\ UNCHANGED <<sale_prices, sarimax, price_forecasts, clock>>
    /\ UNCHANGED <<sessions, district_table, seed, scheduler_enabled, schedulers>>

RunAllForecasts == \E periods \in 1..MaxPeriods : run_all_forecasts(periods)

\* the server runs the first queued task: forecast_all_districts(periods)
RunBackgroundTask ==
    /\ background_tasks # <<>>
    /\ \E fault \in {NoFault, CommitFault} :
          forecast_all_districts(Head(background_tasks), fault)
    /\ background_tasks' = Tail(background_tasks)
    /\ UNCHANGED <<sessions, district_table, seed, scheduler_enabled, schedulers>>

AsyncNext ==
    \/ RunAllForecasts
    \/ RunBackgroundTask
    \/ GetStoredForecasts
    \/ Return

\* RunBackgroundTask can be taken
TaskReady ==
    /\ background_tasks # <<>>
    /\ call.op = "none"
    /\ clock < MaxOps

\* a response that is ready is sent (weak fairness of Return), and a queued
\* task gets its turn although requests may come in between: strong
\* fairness of RunBackgroundTask, SF_vars(RunBackgroundTask) with ENABLED
\* written out as TaskReady
SpecAsync ==
    /\ Init
    /\ [][AsyncNext]_vars
    /\ WF_vars(Return)
    /\ ([]<>TaskReady => []<><<RunBackgroundTask>>_vars)

----------------------------------------------------------------------------
(* Concurrent calls.  Each worker runs one forecast_district call in its   *)
(* own session, one statement at a time: the forecasts are computed when   *)
(* the call begins, every _save_forecast queries the committed table and   *)
(* changes only the session, and the commit writes the session's changed   *)
(* and new rows in one transaction (SQLite admits one writer at a time).   *)

\* the persist loop's items from the two model forecasts
ItemsOf(linear_fc, sarima_fc) ==
    PersistItems(linear_fc, sarima_fc, _ensemble_forecast(linear_fc, sarima_fc))

ItemsFrom(district, ts, periods, linear_fc) ==
    ItemsOf(linear_fc,
            IF Len(ts) >= MIN_POINTS_SARIMA
            THEN _sarima_forecast(ts, periods, sarimax[district])
            ELSE linear_fc)

\* what _forecast_district is going to save for the district
ForecastItems(district, periods) ==
    IF Len(_load_time_series(district)) < MIN_POINTS THEN <<>>
    ELSE ItemsFrom(district, _load_time_series(district), periods,
                   _linear_forecast(_load_time_series(district), periods))

\* variant: the session works on the table as it was when the call began
View_snapshot(w) ==
    [tbl |-> {r \in sessions[w].before :
                 \A x \in sessions[w].dirty : uq_forecast(x) # uq_forecast(r)}
             \cup sessions[w].dirty,
     new |-> sessions[w].new]

\* the session of worker w: the committed rows, those it has changed as it
\* has changed them, and its pending new rows
View(w) ==
    [tbl |-> {r \in price_forecasts :
                 \A x \in sessions[w].dirty : uq_forecast(x) # uq_forecast(r)}
             \cup sessions[w].dirty,
     new |-> sessions[w].new]

begin_forecast_district(w, district, periods) ==
    /\ sessions[w].pc = "idle"
    /\ \A v \in Workers \ {w} : sessions[v].district # district
    /\ sessions' = [sessions EXCEPT ![w] =
          [NoSession EXCEPT !.pc = "saving", !.district = district,
                            !.periods = periods,
                            !.items = ForecastItems(district, periods),
                            !.before = price_forecasts]]
    /\ UNCHANGED <<sale_prices, sarimax, price_forecasts, clock, call>>
    /\ UNCHANGED <<background_tasks, district_table, seed, scheduler_enabled, schedulers>>

Begin ==
    \E w \in Workers, district \in DistrictIds, periods \in 1..MaxPeriods :
        begin_forecast_district(w, district, periods)

\* the session of w after a _save_forecast that left it as db
AfterSave(w, db) ==
    [sessions EXCEPT ![w].saved = @ + 1,
                     ![w].new = db.new,
                     ![w].dirty = db.tbl \ price_forecasts]

\* the next _save_forecast of the persist loop of w
SaveNext(w) ==
    /\ sessions[w].pc = "saving"
    /\ sessions[w].saved < Len(sessions[w].items)
    /\ sessions' = AfterSave(w,
          _save_forecast(View(w), sessions[w].district,
                         sessions[w].items[sessions[w].saved + 1].model_name,
                         sessions[w].items[sessions[w].saved + 1].row, clock))
    /\ UNCHANGED <<sale_prices, sarimax, price_forecasts, clock, call>>
    /\ UNCHANGED <<background_tasks, district_table, seed, scheduler_enabled, schedulers>>

Save == \E w \in Workers : SaveNext(w)

\* the ensemble dicts the call of w returns
ReturnedRows(w) ==
    EnsembleDicts([db |-> View(w), raised |-> FALSE],
                  [i \in 1..(Len(sessions[w].items) \div 3) |->
                      sessions[w].items[2 * (Len(sessions[w].items) \div 3) + i].row],
                  sessions[w].district).rows

\* the with block of w ends: exit is what db_session made of its session
Ended(w, exit) ==
    /\ price_forecasts' = exit.table
    /\ clock' = IF exit.table = price_forecasts THEN clock ELSE clock + 1
    /\ sessions' = [sessions EXCEPT ![w].pc = "done",
                                    ![w].raised = exit.raised,
                                    ![w].rows = IF exit.raised THEN <<>>
                                                ELSE ReturnedRows(w)]
    /\ UNCHANGED <<sale_prices, sarimax, call>>
    /\ UNCHANGED <<background_tasks, district_table, seed, scheduler_enabled, schedulers>>

CommitSession(w) ==
    /\ sessions[w].pc = "saving"
    /\ sessions[w].saved = Len(sessions[w].items)
    /\ Ended(w, db_session([db |-> View(w), raised |-> FALSE], FALSE))

Commit == \E w \in Workers : CommitSession(w)

\* what an earlier forecast of every district over one period has stored
StoredEarlier ==
    UNION {Flushed(_forecast_district(SessionLocal({}), d, 1, 0, 0).db) : d \in DistrictIds}

\* every district can be forecast; the table is empty or holds the points of
\* an earlier forecast over one period
ConcInit ==
    /\ sale_prices = [d \in DistrictIds |-> SampleSeries[2 + (d % 2)]]
    /\ sarimax \in [DistrictIds -> SarimaxOutcomes]
    /\ \A d \in DistrictIds :
          Values(sale_prices[d]) \in ShortValues => sarimax[d] = SarimaxRaises
    /\ \/ price_forecasts = {} /\ clock = 0
       \/ price_forecasts = StoredEarlier /\ clock = 1
    /\ call = NoCall
    /\ Quiet

ConcNext ==
    \/ Begin
    \/ Save
    \/ Commit

SpecConc == ConcInit /\ [][ConcNext]_vars

----------------------------------------------------------------------------
(* Concurrent calls that may be for the same district: two requests that   *)
(* both found nothing stored, or a request that overlaps a bulk run.       *)

begin_forecast(w, district, periods) ==
    /\ sessions[w].pc = "idle"
    /\ sessions' = [sessions EXCEPT ![w] =
          [NoSession EXCEPT !.pc = "saving", !.district = district,
                            !.periods = periods,
                            !.items = ForecastItems(district, periods),
                            !.before = price_forecasts]]
    /\ UNCHANGED <<sale_prices, sarimax, price_forecasts, clock, call>>
    /\ UNCHANGED <<background_tasks, district_table, seed, scheduler_enabled, schedulers>>

BeginAny ==
    \E w \in Workers, district \in DistrictIds, periods \in 1..MaxPeriods :
        begin_forecast(w, district, periods)

RaceNext ==
    \/ BeginAny
    \/ Save
    \/ Commit

SpecRace == ConcInit /\ [][RaceNext]_vars

----------------------------------------------------------------------------
(* Seeding.  ensure_districts commits the district rows; seed_demo_data    *)
(* adds, in one session, the missing districts and the sale prices of      *)
(* every seeded quarter, district and property type, and commits.  The     *)
(* rental, IPV and mortgage tables are not part of the model.              *)

\* the quarters of CITY_AVG_PRICE_SERIES, from the first quarter of FirstYear
SeedQuarters == 4

SeedPeriod(i) == PeriodAdd([year |-> FirstYear, quarter |-> 1], i - 1)

\* round(city_avg * multiplier + noise, 2), in whole euros
SeedPrices == {2, 3}

\* (property type, factor in hundredths)
PropertyTypes == <<[ptype |-> "all", factor |-> 100],
                   [ptype |-> "new", factor |-> 118],
                   [ptype |-> "second_hand", factor |-> 96]>>

uq_sale_period(r) == <<r.district_id, r.year, r.quarter>>

\* flush + commit of the pending sale prices raises IntegrityError
SaleIntegrityError(committed, new) ==
    \E i \in 1..Len(new) :
        \/ \E r \in committed : uq_sale_period(r) = uq_sale_period(new[i])
        \/ \E j \in 1..(i - 1) : uq_sale_period(new[j]) = uq_sale_period(new[i])

\* the SalePrice rows of one district and quarter that are not stored yet
\* (the query does not see the pending rows)
SeedRows(committed, district_id, period, price) ==
    SelectSeq([t \in 1..Len(PropertyTypes) |->
                  [district_id   |-> district_id,
                   year          |-> period.year,
                   quarter       |-> period.quarter,
                   property_type |-> PropertyTypes[t].ptype,
                   price_cents   |-> price * PropertyTypes[t].factor]],
              LAMBDA row : \A r \in committed :
                              \/ uq_sale_period(r) # uq_sale_period(row)
                              \/ r.property_type # row.property_type)

\* the "all" rows of a district as _load_time_series reads them
AllSeries(rows, district_id) ==
    [i \in 1..Cardinality({r \in rows : /\ r.district_id = district_id
                                        /\ r.property_type = "all"}) |->
        [year         |-> SeedPeriod(i).year,
         quarter      |-> SeedPeriod(i).quarter,
         price_per_m2 |-> (CHOOSE r \in rows :
                             /\ r.district_id = district_id
                             /\ r.property_type = "all"
                             /\ r.year = SeedPeriod(i).year
                             /\ r.quarter = SeedPeriod(i).quarter).price_cents \div 100]]

ensure_districts ==
    /\ seed.pc = "idle"
    /\ district_table # DistrictIds
    /\ district_table' = DistrictIds
    /\ UNCHANGED <<sale_prices, sarimax, price_forecasts, clock, call>>
    /\ UNCHANGED <<background_tasks, sessions, seed, scheduler_enabled, schedulers>>

\* seed_demo_data opens its session; _seed_districts
_seed_districts ==
    /\ seed.pc = "idle"
    /\ seed' = [seed EXCEPT !.pc = "sale_prices"]
    /\ UNCHANGED <<sale_prices, sarimax, price_forecasts, clock, call>>
    /\ UNCHANGED <<background_tasks, sessions, district_table, scheduler_enabled, schedulers>>

\* one district of one quarter in the loops of _seed_sale_prices
_seed_sale_prices ==
    /\ seed.pc = "sale_prices"
    /\ seed.pairs < SeedQuarters * NumDistricts
    /\ \E price \in SeedPrices :
          seed' = [seed EXCEPT
                     !.pairs = @ + 1,
                     !.new = @ \o SeedRows(seed.committed,
                                           (seed.pairs % NumDistricts) + 1,
                                           SeedPeriod((seed.pairs \div NumDistricts) + 1),
                                           price)]
    /\ UNCHANGED <<sale_prices, sarimax, price_forecasts, clock, call>>
    /\ UNCHANGED <<background_tasks, sessions, district_table, scheduler_enabled, schedulers>>

\* the with block of seed_demo_data ends: commit, or rollback and re-raise
CommitSeed ==
    /\ seed.pc = "sale_prices"
    /\ seed.pairs = SeedQuarters * NumDistricts
    /\ IF SaleIntegrityError(seed.committed, seed.new)
       THEN /\ seed' = [seed EXCEPT !.pc = "done", !.new = <<>>, !.raised = TRUE]
            /\ UNCHANGED <<sale_prices, district_table>>
       ELSE /\ seed' = [seed EXCEPT !.pc = "done", !.new = <<>>,
                                    !.committed = @ \cup {seed.new[i] : i \in 1..Len(seed.new)}]
            /\ district_table' = DistrictIds
            /\ sale_prices' = [d \in DistrictIds |->
                                 AllSeries(seed.committed
                                           \cup {seed.new[i] : i \in 1..Len(seed.new)}, d)]
    /\ UNCHANGED <<sarimax, price_forecasts, clock, call>>
    /\ UNCHANGED <<background_tasks, sessions, scheduler_enabled, schedulers>>

\* a forecast once the seeding has ended
SeedForecast ==
    \E d \in district_table, periods \in 1..MaxPeriods :
        /\ seed.pc = "done"
        /\ forecast_district(Code(d), periods, NoFault)
        /\ UNCHANGED elsewhere

\* an empty database
SeedInit ==
    /\ sale_prices = [d \in DistrictIds |-> <<>>]
    /\ sarimax = [d \in DistrictIds |-> SarimaxRaises]
    /\ price_forecasts = {}
    /\ clock = 0
    /\ call = NoCall
    /\ background_tasks = <<>>
    /\ sessions = [w \in Workers |-> NoSession]
    /\ district_table = {}
    /\ seed = NoSeed
    /\ scheduler_enabled = TRUE
    /\ schedulers = <<>>

SeedNext ==
    \/ ensure_districts
    \/ _seed_districts
    \/ _seed_sale_prices
    \/ CommitSeed
    \/ SeedForecast
    \/ Return

SpecSeed == SeedInit /\ [][SeedNext]_vars

----------------------------------------------------------------------------
(* Data growth: district 1 starts with one of the short sample series,     *)
(* receives the observations of the following quarters, and is forecast    *)
(* in between.                                                             *)

DataSeries == {SampleSeries[1], SampleSeries[2]}

\* db.add(SalePrice(...)) for the quarter after the last one of the district
AddSalePrice(district_id, price) ==
    /\ call.op = "none"
    /\ Len(sale_prices[district_id]) < MaxShortLen
    /\ sale_prices' =
          [sale_prices EXCEPT ![district_id] =
              Append(@, [year         |-> PeriodAdd(LastPeriod(@), 1).year,
                         quarter      |-> PeriodAdd(LastPeriod(@), 1).quarter,
                         price_per_m2 |-> price])]
    /\ UNCHANGED <<sarimax, price_forecasts, clock, call>>
    /\ UNCHANGED elsewhere

AddObservation == \E price \in 1..MaxPrice : AddSalePrice(1, price)

DataInit ==
    /\ \E series \in DataSeries :
          sale_prices = [d \in DistrictIds |-> IF d = 1 THEN series ELSE SampleSeries[1]]
    /\ sarimax = [d \in DistrictIds |-> SarimaxRaises]
    /\ price_forecasts = {}
    /\ clock = 0
    /\ call = NoCall
    /\ Quiet

DataForecast ==
    \E periods \in 1..MaxPeriods :
        /\ forecast_district(Code(1), periods, NoFault)
        /\ UNCHANGED elsewhere

DataNext ==
    \/ AddObservation
    \/ DataForecast
    \/ Return

SpecData == DataInit /\ [][DataNext]_vars

----------------------------------------------------------------------------
(* One district over every input series: district 1 holds any series of    *)
(* the model, starting in any quarter, and is forecast once.               *)

SeriesInit ==
    /\ \E vals \in SeriesValues, quarter \in 1..4 :
          sale_prices = [d \in DistrictIds |->
                            IF d = 1 THEN Observations(vals, FirstYear, quarter)
                            ELSE Observations(<<2, 3, 3>>, FirstYear, 1)]
    /\ sarimax \in [DistrictIds -> SarimaxOutcomes]
    /\ \A d \in DistrictIds :
          Values(sale_prices[d]) \in ShortValues => sarimax[d] = SarimaxRaises
    /\ price_forecasts = {}
    /\ clock = 0
    /\ call = NoCall
    /\ Quiet

SeriesForecast ==
    \E periods \in 1..MaxPeriods :
        /\ forecast_district(Code(1), periods, NoFault)
        /\ UNCHANGED elsewhere

SeriesNext == SeriesForecast

SpecSeries == SeriesInit /\ [][SeriesNext]_vars

----------------------------------------------------------------------------
(* Vocabulary of the properties *)

ForecastOps == {"forecast_district", "forecast_all_districts"}

\* the six fields of a forecast point
Point(r) ==
    [year |-> r.year, quarter |-> r.quarter,
     predicted_price_m2 |-> r.predicted_price_m2,
     lower_bound |-> r.lower_bound, upper_bound |-> r.upper_bound,
     confidence_level |-> r.confidence_level]

Points(rows) == [i \in 1..Len(rows) |-> Point(rows[i])]

\* every point stored, or handed back by the last call
EmittedPoints ==
    {Point(_forecast_to_dict(r)) : r \in price_forecasts}
    \cup {Point(call.rows[i]) : i \in 1..Len(call.rows)}
    \cup UNION {{Point(call.results[c][i]) : i \in 1..Len(call.results[c])} :
                  c \in DOMAIN call.results}

\* the rows of district d and model m written by the transaction stamped now
Written(d, m, now) ==
    {r \in price_forecasts :
        r.district_id = d /\ r.model_name = m /\ r.generated_at = now}

\* the district the last call was about (0: none or unknown)
CallDistrict == DistrictByCode(call.code)

Enough(d) == Len(sale_prices[d]) >= 4

\* the last call was a bulk run in which a save for a forecastable district raised
BulkSaveFailed ==
    /\ call.op = "forecast_all_districts"
    /\ call.fault = "save"
    /\ Enough(call.fault_district)

\* the sarima rows written now for d repeat the linear rows written now
SarimaIsLinear(d, now, periods) ==
    /\ Cardinality(Written(d, "linear", now)) = periods
    /\ Cardinality(Written(d, "sarima", now)) = periods
    /\ \A l \in Written(d, "linear", now) :
          \E x \in Written(d, "sarima", now) :
              Point(_forecast_to_dict(x)) = Point(_forecast_to_dict(l))

NextQuarter(p) ==
    IF p.quarter = 4 THEN [year |-> p.year + 1, quarter |-> 1]
    ELSE [year |-> p.year, quarter |-> p.quarter + 1]

RECURSIVE QuartersAfter(_, _)
QuartersAfter(p, i) == IF i = 0 THEN p ELSE NextQuarter(QuartersAfter(p, i - 1))

----------------------------------------------------------------------------
(* C1.  In forecast_all_districts a failure while persisting one district  *)
(* does not abort the run: every other district still gets its entry in    *)
(* the result mapping.                                                     *)
C1_BulkFailureIsolated ==
    BulkSaveFailed =>
        \A d \in DistrictIds \ {call.fault_district} : Code(d) \in DOMAIN call.results

(* C2.  In a bulk run an error for one district rolls back that district   *)
(* only: none of its points is committed, and the linear, sarima and       *)
(* ensemble sets of every other forecastable district are committed.       *)
C2_BulkRollbackPerDistrict ==
    BulkSaveFailed =>
        /\ \A m \in {"linear", "sarima", "ensemble"} :
              Written(call.fault_district, m, call.now) = {}
        /\ \A d \in DistrictIds \ {call.fault_district} :
              Enough(d) =>
                  \A m \in {"linear", "sarima", "ensemble"} :
                      Cardinality(Written(d, m, call.now)) = call.periods

(* C3.  Every forecast point emitted or stored satisfies                   *)
(* lower_bound <= predicted_price_m2 <= upper_bound.                       *)
C3_BoundsOrdered ==
    \A p \in EmittedPoints :
        p.lower_bound <= p.predicted_price_m2 /\ p.predicted_price_m2 <= p.upper_bound

(* C4.  Every emitted or stored forecast point has predicted_price_m2 >= 0 *)
(* and lower_bound >= 0.                                                   *)
C4_NonNegative ==
    \A p \in EmittedPoints : p.predicted_price_m2 >= 0 /\ p.lower_bound >= 0

\* a point of each model whose raw prediction was negative has been stored
C4_Witness ==
    \A m \in {"linear", "sarima", "ensemble"} :
        \E r \in price_forecasts :
            r.model_name = m /\ r.predicted_price_m2 = 0 /\ r.upper_bound < 0

(* C5.  The store holds one point per (district, model, year, quarter):    *)
(* a forecast call that meets no storage fault succeeds, and regenerating  *)
(* a stored period overwrites the point with the values just returned.     *)
C5_OnePointPerKey ==
    /\ \A r1, r2 \in price_forecasts : uq_forecast(r1) = uq_forecast(r2) => r1 = r2
    /\ (call.op \in ForecastOps /\ call.fault = "none") => ~call.raised
    /\ (call.op = "forecast_district" /\ ~call.raised) =>
          \A i \in 1..Len(call.rows) :
              \E r \in Written(CallDistrict, "ensemble", call.now) :
                  Point(_forecast_to_dict(r)) = Point(call.rows[i])

\* a call has regenerated a period that already had a stored point
C5_Witness ==
    /\ call.op \in ForecastOps
    /\ ~call.raised
    /\ \E old \in call.before, new \in price_forecasts :
          /\ uq_forecast(old) = uq_forecast(new)
          /\ old.generated_at < call.now
          /\ new.generated_at = call.now

(* C6.  forecast_district for a district with fewer than 4 observations    *)
(* returns an empty list, raises nothing and leaves the store unchanged.   *)
C6_InsufficientData ==
    (/\ call.op = "forecast_district"
     /\ CallDistrict # 0
     /\ call.fault # "commit"
     /\ Len(sale_prices[CallDistrict]) < 4) =>
        /\ call.rows = <<>>
        /\ ~call.raised
        /\ price_forecasts = call.before

\* a district with 3 observations was asked for while forecasts were stored
C6_Witness ==
    /\ call.op = "forecast_district"
    /\ CallDistrict # 0
    /\ Len(sale_prices[CallDistrict]) = 3
    /\ call.before # {}
    /\ call.rows = <<>>

\* the districts the last call set out to forecast
Targets ==
    IF call.op = "forecast_all_districts" THEN DistrictIds
    ELSE IF call.op = "forecast_district" THEN {CallDistrict} \ {0}
    ELSE {}

\* what the last call handed back for district d
Returned(d) ==
    IF call.op = "forecast_all_districts"
    THEN (IF Code(d) \in DOMAIN call.results THEN call.results[Code(d)] ELSE <<>>)
    ELSE call.rows

(* C7.  A failure of the seasonal fit is not propagated: the stored sarima *)
(* points are the trend points, the district gets its full ensemble        *)
(* result, and in a bulk run every other district gets its result too.     *)
C7_SeasonalFailureFallsBack ==
    \A d \in Targets :
        (/\ call.fault = "none"
         /\ Len(sale_prices[d]) >= 12
         /\ sarimax[d].raises) =>
            /\ ~call.raised
            /\ SarimaIsLinear(d, call.now, call.periods)
            /\ Len(Returned(d)) = call.periods
            /\ Cardinality(Written(d, "ensemble", call.now)) = call.periods
            /\ \A e \in Targets \ {d} :
                  Len(Returned(e)) = IF Enough(e) THEN call.periods ELSE 0

\* a bulk run met a district whose seasonal fit raises, next to a forecastable one
C7_Witness ==
    /\ call.op = "forecast_all_districts"
    /\ call.fault = "none"
    /\ \E d, e \in DistrictIds :
          /\ d # e
          /\ Len(sale_prices[d]) >= 12 /\ sarimax[d].raises
          /\ Enough(e)
          /\ Len(Returned(d)) = call.periods
          /\ Len(Returned(e)) = call.periods

(* C8.  For a series of 4 <= n < 12 observations the stored sarima set is  *)
(* pointwise the linear set, whatever the seasonal fit would have yielded. *)
C8_ShortSeriesSeasonalIsTrend ==
    \A d \in Targets :
        (/\ ~call.raised
         /\ Len(sale_prices[d]) >= 4
         /\ Len(sale_prices[d]) < 12) =>
            SarimaIsLinear(d, call.now, call.periods)

\* an 11-point series whose seasonal fit would have succeeded was forecast
C8_Witness ==
    /\ call.op = "forecast_district"
    /\ ~call.raised
    /\ CallDistrict # 0
    /\ Len(sale_prices[CallDistrict]) = 11
    /\ ~sarimax[CallDistrict].raises
    /\ Len(call.rows) = call.periods

(* C9 as stated.  After a successful forecast_district(d, h) the ensemble  *)
(* points get_stored_forecasts(d, 'ensemble') returns are the points the   *)
(* call returned.                                                          *)
C9_StoredEqualsReturned ==
    (/\ call.op = "forecast_district"
     /\ ~call.raised
     /\ CallDistrict # 0
     /\ Enough(CallDistrict)) =>
        Points(get_stored_forecasts(price_forecasts, call.code, "ensemble"))
            = Points(call.rows)

\* the periods of the rows of district d and model m in a table
StoredPeriods(table, d, m) ==
    {<<r.forecast_year, r.forecast_quarter>> :
        r \in {x \in table : x.district_id = d /\ x.model_name = m}}

(* C9 amended.  A successful forecast_district(d, h), n >= 4, writes h     *)
(* points of each of linear, sarima and ensemble and returns h ensemble    *)
(* points; get_stored_forecasts(d, 'ensemble') then returns every ensemble *)
(* point stored for d, which contains each returned point, and is exactly  *)
(* the returned points when no ensemble point of d for another period was  *)
(* stored before the call.                                                 *)
C9_StoredContainsReturned ==
    (/\ call.op = "forecast_district"
     /\ ~call.raised
     /\ CallDistrict # 0
     /\ Enough(CallDistrict)) =>
        LET stored == Points(get_stored_forecasts(price_forecasts, call.code, "ensemble"))
            rows == Points(call.rows)
        IN  /\ \A m \in {"linear", "sarima", "ensemble"} :
                  Cardinality(Written(CallDistrict, m, call.now)) = call.periods
            /\ Len(call.rows) = call.periods
            /\ \A i \in 1..Len(call.rows) : call.rows[i].model = "ensemble"
            /\ \A i \in 1..Len(rows) : \E j \in 1..Len(stored) : stored[j] = rows[i]
            /\ Len(stored) =
                  Cardinality(StoredPeriods(price_forecasts, CallDistrict, "ensemble"))
            /\ StoredPeriods(call.before, CallDistrict, "ensemble")
                  \subseteq {<<rows[i].year, rows[i].quarter>> : i \in 1..Len(rows)}
               => stored = rows

\* a regeneration with a shorter horizon: more points are stored than returned
C9_Witness ==
    /\ call.op = "forecast_district"
    /\ ~call.raised
    /\ CallDistrict # 0
    /\ Len(call.rows) = call.periods
    /\ Len(get_stored_forecasts(price_forecasts, call.code, "ensemble")) > Len(call.rows)

(* C10.  The forecast of a series with n >= 4 and last period (y, q) has   *)
(* exactly h points, whose periods are the h quarters following (y, q) in  *)
(* order, quarter 4 being followed by quarter 1 of the next year.          *)
C10_FuturePeriodsSequential ==
    (/\ call.op = "forecast_district"
     /\ ~call.raised
     /\ CallDistrict # 0
     /\ Enough(CallDistrict)) =>
        /\ Len(call.rows) = call.periods
        /\ \A i \in 1..Len(call.rows) :
              /\ call.rows[i].quarter \in 1..4
              /\ [year |-> call.rows[i].year, quarter |-> call.rows[i].quarter]
                    = QuartersAfter(LastPeriod(sale_prices[CallDistrict]), i)

\* a forecast whose periods cross a year boundary
C10_Witness ==
    /\ call.op = "forecast_district"
    /\ Len(call.rows) >= 2
    /\ \E i \in 1..(Len(call.rows) - 1) :
          /\ call.rows[i].quarter = 4
          /\ call.rows[i + 1].quarter = 1
          /\ call.rows[i + 1].year = call.rows[i].year + 1

\* the points of district d and model m written by the transaction stamped now
ModelPoints(d, m, now) == {Point(_forecast_to_dict(r)) : r \in Written(d, m, now)}

(* C11.  The ensemble blend is idempotent on equal inputs: when the sarima  *)
(* sequence of a forecast is the linear sequence, the ensemble sequence     *)
(* that is stored and returned is that same sequence.                       *)
C11_EnsembleIdempotent ==
    \A d \in Targets :
        (/\ ~call.raised
         /\ Enough(d)
         /\ ModelPoints(d, "sarima", call.now) = ModelPoints(d, "linear", call.now)) =>
            /\ ModelPoints(d, "ensemble", call.now) = ModelPoints(d, "linear", call.now)
            /\ {Point(Returned(d)[i]) : i \in 1..Len(Returned(d))}
                  = ModelPoints(d, "linear", call.now)

\* equal linear and sarima sequences were blended, with values that are not
\* whole euros and a negative upper bound among them
C11_Witness ==
    /\ call.op = "forecast_district"
    /\ ~call.raised
    /\ CallDistrict # 0
    /\ Len(call.rows) = 2
    /\ ModelPoints(CallDistrict, "sarima", call.now)
          = ModelPoints(CallDistrict, "linear", call.now)
    /\ \E i \in 1..Len(call.rows) : call.rows[i].predicted_price_m2 % 100 # 0
    /\ \E i \in 1..Len(call.rows) : call.rows[i].upper_bound < 0

(* C12.  get_stored_forecasts is a pure read: the step of the call leaves   *)
(* the stored forecast points and the transaction count as they were, so    *)
(* nothing is created, modified, deleted or generated by it.                *)
C12_PureRead ==
    [][GetStoredForecasts => (price_forecasts' = price_forecasts /\ clock' = clock)]_vars

\* a lookup has returned stored points
C12_Witness ==
    /\ call.op = "get_stored_forecasts"
    /\ call.rows # <<>>
    /\ price_forecasts # {}

(* C13.  get_stored_forecasts for a known district for which no forecast    *)
(* is stored returns the empty sequence and raises no error.                *)
C13_EmptyBeforeGeneration ==
    (/\ call.op = "get_stored_forecasts"
     /\ CallDistrict # 0
     /\ \A r \in call.before : r.district_id # CallDistrict) =>
        call.rows = <<>> /\ ~call.raised

\* a lookup for a district without forecasts while another district has some
C13_Witness ==
    /\ call.op = "get_stored_forecasts"
    /\ CallDistrict # 0
    /\ \A r \in call.before : r.district_id # CallDistrict
    /\ \E r \in call.before : r.model_name = call.model
    /\ call.rows = <<>>

\* the stored rows a lookup with the arguments of the last call selects
Selected ==
    {r \in call.before :
        /\ r.model_name = call.model
        /\ CallDistrict # 0 => r.district_id = CallDistrict}

(* C14.  get_stored_forecasts returns the points stored under the requested *)
(* model name (of the requested district, when it is known) and only those, *)
(* each once, ordered by forecast_year then forecast_quarter ascending.     *)
C14_ModelFilteredAndOrdered ==
    call.op = "get_stored_forecasts" =>
        /\ Len(call.rows) = Cardinality(Selected)
        /\ \A i \in 1..Len(call.rows) :
              \E r \in Selected : call.rows[i] = _forecast_to_dict(r)
        /\ \A r \in Selected :
              \E i \in 1..Len(call.rows) : call.rows[i] = _forecast_to_dict(r)
        /\ \A i, j \in 1..Len(call.rows) :
              i < j =>
                 \/ call.rows[i].year < call.rows[j].year
                 \/ /\ call.rows[i].year = call.rows[j].year
                    /\ call.rows[i].quarter <= call.rows[j].quarter

\* a lookup returned several periods while other models' points were stored
C14_Witness ==
    /\ call.op = "get_stored_forecasts"
    /\ Len(call.rows) >= 2
    /\ call.rows[1].quarter # call.rows[Len(call.rows)].quarter
    /\ \E r \in call.before : r.model_name # call.model

\* the rows a forecast of district d over periods quarters computes from the
\* present data, as the rows a call stamped now stores in an empty table
Fresh(d, periods, now) ==
    Flushed(_forecast_district(SessionLocal({}), d, periods, 0, now).db)

(* C15.  A forecast that regenerates a stored (district, model, year,       *)
(* quarter) leaves one row with that key, carrying the newly computed       *)
(* predicted_price_m2, lower_bound and upper_bound and the timestamp of the  *)
(* regenerating call, later than the old one; and while the input data are  *)
(* the ones the district started with, the numeric values stay as stored.   *)
C15_RegenerationOverwrites ==
    (/\ call.op = "forecast_district"
     /\ ~call.raised
     /\ CallDistrict # 0
     /\ Enough(CallDistrict)) =>
        \A old \in call.before :
            (\E f \in Fresh(CallDistrict, call.periods, call.now) :
                uq_forecast(f) = uq_forecast(old)) =>
                /\ \E new \in price_forecasts :
                      /\ uq_forecast(new) = uq_forecast(old)
                      /\ new \in Fresh(CallDistrict, call.periods, call.now)
                      /\ new.generated_at > old.generated_at
                      /\ new.confidence_level = old.confidence_level
                /\ \A other \in price_forecasts :
                      uq_forecast(other) = uq_forecast(old) =>
                         /\ other.generated_at = call.now
                         /\ sale_prices[CallDistrict] \in DataSeries =>
                               Point(_forecast_to_dict(other)) = Point(_forecast_to_dict(old))

\* a stored point was regenerated after a new observation and changed value
C15_Witness ==
    /\ call.op = "forecast_district"
    /\ ~call.raised
    /\ CallDistrict # 0
    /\ sale_prices[CallDistrict] \notin DataSeries
    /\ \E old \in call.before, new \in price_forecasts :
          /\ uq_forecast(new) = uq_forecast(old)
          /\ new.generated_at > old.generated_at
          /\ new.predicted_price_m2 # old.predicted_price_m2

(* C16.  When a storage write of a single forecast_district call fails (a   *)
(* save statement that is reached, or the commit), the call raises and the  *)
(* store is left exactly as it was before the call.                         *)
C16_FailedWriteRollsBack ==
    (/\ call.op = "forecast_district"
     /\ \/ call.fault = "commit"
        \/ call.fault = "save" /\ CallDistrict # 0 /\ Enough(CallDistrict)) =>
        /\ call.raised
        /\ call.rows = <<>>
        /\ price_forecasts = call.before

\* the last save of a call failed after earlier saves of the same call had
\* changed rows that were already stored
C16_Witness ==
    /\ call.op = "forecast_district"
    /\ call.fault = "save"
    /\ call.raised
    /\ \E r \in call.before : r.district_id = CallDistrict
    /\ price_forecasts = call.before


\* the n quarters that follow the last observation of district d
RunAfterLast(d, n) ==
    {<<QuartersAfter(LastPeriod(sale_prices[d]), i).year,
       QuartersAfter(LastPeriod(sale_prices[d]), i).quarter>> : i \in 1..n}

(* C19.  Once a district's forecast has been regenerated, the stored set of *)
(* each of its models covers a contiguous run of quarters that starts       *)
(* immediately after the district's last historical quarter, also when      *)
(* observations were added since the points were first stored.              *)
C19_StoredRunFollowsHistory ==
    (/\ call.op = "forecast_district"
     /\ ~call.raised
     /\ CallDistrict # 0
     /\ Enough(CallDistrict)) =>
        \A m \in {"linear", "sarima", "ensemble"} :
            StoredPeriods(price_forecasts, CallDistrict, m) =
                RunAfterLast(CallDistrict,
                             Cardinality(StoredPeriods(price_forecasts, CallDistrict, m)))


\* a bulk run over p periods is queued
Queued(p) == \E i \in 1..Len(background_tasks) : background_tasks[i] = p

(* C17.  POST /forecast/run-all answers 'accepted' without forecasting any  *)
(* district: the step of the request leaves the stored forecasts as they    *)
(* are and queues exactly one run with the requested periods; a bulk run    *)
(* only ever starts as the first queued task, which it takes off the     *)
(* queue; and every queued run is eventually executed as                   *)
(* forecast_all_districts with its number of periods.                      *)
C17_AcceptedThenRun ==
    /\ [][/\ (call' # call /\ call'.op = "run_all_forecasts") =>
                /\ call'.status = "accepted"
                /\ price_forecasts' = price_forecasts
                /\ clock' = clock
                /\ background_tasks' = Append(background_tasks, call'.periods)
          /\ (call' # call /\ call'.op = "forecast_all_districts") =>
                /\ background_tasks # <<>>
                /\ call'.periods = Head(background_tasks)
                /\ background_tasks' = Tail(background_tasks)
          /\ (call' = call \/ call'.op \notin {"run_all_forecasts", "forecast_all_districts"}) =>
                background_tasks' = background_tasks]_vars
    /\ \A p \in 1..MaxPeriods :
          Queued(p) ~> (call.op = "forecast_all_districts" /\ call.periods = p)

\* a queued run has stored forecasts while a later request is still queued
C17_Witness ==
    /\ call.op = "forecast_all_districts"
    /\ ~call.raised
    /\ call.periods = MaxPeriods
    /\ price_forecasts # call.before
    /\ background_tasks # <<>>


\* the points of district d in a table, each with its model
DistrictPoints(table, d) ==
    {<<r.model_name, Point(_forecast_to_dict(r))>> : r \in {x \in table : x.district_id = d}}

\* the table a call of worker w leaves when it runs alone on the table that
\* was stored when it began
Alone(w) ==
    Flushed(_forecast_district(SessionLocal(sessions[w].before), sessions[w].district,
                               sessions[w].periods, 0, 0).db)

(* C18.  forecast_district calls that run concurrently for distinct         *)
(* districts do not disturb each other: however their statements            *)
(* interleave, a call that has ended has not raised, has returned one       *)
(* point per requested period, and the points stored for its district are  *)
(* and stay the ones the call stores when it runs alone.                   *)
C18_DistrictsIndependent ==
    \A w \in Workers :
        sessions[w].pc = "done" =>
            /\ ~sessions[w].raised
            /\ Len(sessions[w].rows) = sessions[w].periods
            /\ DistrictPoints(price_forecasts, sessions[w].district)
                 = DistrictPoints(Alone(w), sessions[w].district)

\* both calls began on the stored points of an earlier forecast and have
\* ended, and one of them saved rows before and after the other's commit
C18_Witness ==
    /\ \A w \in Workers : sessions[w].pc = "done" /\ sessions[w].before = StoredEarlier
    /\ \E r1 \in price_forecasts, r2 \in price_forecasts :
          /\ r1.district_id = r2.district_id
          /\ r1.generated_at = 1
          /\ r2.generated_at = 2


(* C20.  On an empty database ensure_districts followed by seed_demo_data   *)
(* ends without a uniqueness violation; afterwards every district is       *)
(* stored and holds, for every seeded quarter, a sale price of each        *)
(* property type, and forecast_district returns one point per requested    *)
(* period.                                                                 *)
C20_SeedingCompletes ==
    seed.pc = "done" =>
        /\ ~seed.raised
        /\ district_table = DistrictIds
        /\ \A d \in DistrictIds, i \in 1..SeedQuarters, t \in 1..Len(PropertyTypes) :
              \E r \in seed.committed :
                  /\ r.district_id = d
                  /\ r.year = SeedPeriod(i).year
                  /\ r.quarter = SeedPeriod(i).quarter
                  /\ r.property_type = PropertyTypes[t].ptype
        /\ (call.op = "forecast_district" => Len(call.rows) = call.periods)


\* the stored rows of the three models for one district and quarter
SamePeriod(l, s, e) ==
    /\ l.model_name = "linear" /\ s.model_name = "sarima" /\ e.model_name = "ensemble"
    /\ l.district_id = e.district_id /\ s.district_id = e.district_id
    /\ l.forecast_year = e.forecast_year /\ s.forecast_year = e.forecast_year
    /\ l.forecast_quarter = e.forecast_quarter /\ s.forecast_quarter = e.forecast_quarter

\* e is exactly 0.65 sar + 0.35 lin (cents)
ExactBlend(lin, sar, e) == 100 * e = 65 * sar + 35 * lin

\* e is 0.65 sar + 0.35 lin to the nearest cent, and lies between lin and sar
RoundedBlend(lin, sar, e) ==
    /\ 100 * e - (65 * sar + 35 * lin) \in (0 - 50)..50
    /\ Min(lin, sar) <= e
    /\ e <= IF lin < sar THEN sar ELSE lin

(* C23 as stated.  Each ensemble field equals 0.65 times the seasonal      *)
(* value plus 0.35 times the trend value of the same position.             *)
C23_ExactBlend ==
    \A l \in price_forecasts, s \in price_forecasts, e \in price_forecasts :
        SamePeriod(l, s, e) =>
            /\ ExactBlend(l.predicted_price_m2, s.predicted_price_m2, e.predicted_price_m2)
            /\ ExactBlend(l.lower_bound, s.lower_bound, e.lower_bound)
            /\ ExactBlend(l.upper_bound, s.upper_bound, e.upper_bound)

(* C23 amended.  Each ensemble field is 0.65 times the seasonal value plus *)
(* 0.35 times the trend value of the same position, rounded to the cent:   *)
(* it is within half a cent of the exact blend and lies between the trend  *)
(* and the seasonal value.                                                 *)
C23_RoundedBlend ==
    \A l \in price_forecasts, s \in price_forecasts, e \in price_forecasts :
        SamePeriod(l, s, e) =>
            /\ RoundedBlend(l.predicted_price_m2, s.predicted_price_m2, e.predicted_price_m2)
            /\ RoundedBlend(l.lower_bound, s.lower_bound, e.lower_bound)
            /\ RoundedBlend(l.upper_bound, s.upper_bound, e.upper_bound)

\* a blend of two different values that is not a whole number of cents
C23_Witness ==
    \E l \in price_forecasts, s \in price_forecasts, e \in price_forecasts :
        /\ SamePeriod(l, s, e)
        /\ l.predicted_price_m2 # s.predicted_price_m2
        /\ ~ExactBlend(l.predicted_price_m2, s.predicted_price_m2, e.predicted_price_m2)


(* C24.  The i-th ensemble point a forecast returns carries the year, the  *)
(* quarter and the confidence_level of the i-th trend point, the one for   *)
(* the i-th quarter after the last observation, and every returned point   *)
(* has confidence_level 0.95.                                              *)
C24_CarriedFromTrend ==
    (call.op \in ForecastOps /\ ~call.raised) =>
        \A d \in Targets :
            \A i \in 1..Len(Returned(d)) :
                /\ Returned(d)[i].confidence_level = 95
                /\ \E l \in Written(d, "linear", call.now) :
                      /\ l.forecast_year = QuartersAfter(LastPeriod(sale_prices[d]), i).year
                      /\ l.forecast_quarter = QuartersAfter(LastPeriod(sale_prices[d]), i).quarter
                      /\ l.forecast_year = Returned(d)[i].year
                      /\ l.forecast_quarter = Returned(d)[i].quarter
                      /\ l.confidence_level = Returned(d)[i].confidence_level

\* a call returned the points of the longest horizon for a district whose
\* seasonal fit succeeded
C24_Witness ==
    /\ call.op = "forecast_district"
    /\ ~call.raised
    /\ CallDistrict # 0
    /\ ~sarimax[CallDistrict].raises
    /\ Len(call.rows) = MaxPeriods


(* C25.  forecast_district with a code that matches no district returns an *)
(* empty list, raises nothing and leaves the stored forecasts unchanged    *)
(* (no storage fault being injected).                                      *)
C25_UnknownDistrict ==
    (/\ call.op = "forecast_district"
     /\ call.code \notin {Code(d) : d \in DistrictIds}
     /\ call.fault = "none") =>
        /\ ~call.raised
        /\ call.rows = <<>>
        /\ price_forecasts = call.before

\* the call for an unknown code was made while forecasts were stored
C25_Witness ==
    /\ call.op = "forecast_district"
    /\ call.code = UnknownCode
    /\ call.fault = "none"
    /\ call.before # {}
    /\ \A d \in DistrictIds : Enough(d)

(* C26.  Every row get_stored_forecasts(district_code = c, model) returns  *)
(* belongs to the district with code c: when c matches no district the     *)
(* result is empty, and otherwise the rows are those stored for that       *)
(* district.                                                               *)
C26_RowsOfRequestedDistrict ==
    (call.op = "get_stored_forecasts" /\ call.code # "") =>
        \A i \in 1..Len(call.rows) :
            \E r \in price_forecasts :
                /\ _forecast_to_dict(r) = call.rows[i]
                /\ r.model_name = call.model
                /\ \E d \in DistrictIds : Code(d) = call.code /\ r.district_id = d


(* C30.  In every committed state and for every district the same periods  *)
(* are stored under linear, sarima and ensemble, whatever calls succeeded   *)
(* or failed before.                                                       *)
C30_SamePeriodsPerModel ==
    \A d \in DistrictIds :
        /\ StoredPeriods(price_forecasts, d, "linear") = StoredPeriods(price_forecasts, d, "ensemble")
        /\ StoredPeriods(price_forecasts, d, "sarima") = StoredPeriods(price_forecasts, d, "ensemble")

\* a call whose last save failed, after an earlier call had stored points
C30_Witness ==
    /\ call.op \in ForecastOps
    /\ call.fault = "save"
    /\ call.raised
    /\ price_forecasts # {}
    /\ \E d \in DistrictIds : StoredPeriods(price_forecasts, d, "sarima") = {}


\* the rows stored before the last call for the requested district and model
StoredForRequest ==
    {r \in call.before : r.district_id = CallDistrict /\ r.model_name = call.model}

\* what forecast_district of the requested district and periods does on the
\* table stored before the last call
Invoked ==
    ForecastBody(CallDistrict,
                 _forecast_district(SessionLocal(call.before), CallDistrict,
                                    call.periods, 0, call.now))

(* C21.  GET /forecast/{district_code}: if a point is stored for the        *)
(* requested district and model, the response is the stored points and     *)
(* nothing is generated or written; otherwise forecast_district is invoked  *)
(* once, its results are stored and its rows are the response.              *)
C21_StoredElseGenerated ==
    call.op = "route_forecast_district" =>
        IF StoredForRequest # {}
        THEN /\ price_forecasts = call.before
             /\ Len(call.rows) = Cardinality(StoredForRequest)
             /\ \A i \in 1..Len(call.rows) :
                   \E r \in StoredForRequest : _forecast_to_dict(r) = call.rows[i]
        ELSE /\ price_forecasts = Flushed(Invoked.db)
             /\ call.rows = Invoked.rows

(* C27.  Every point in a response of GET /forecast/{district_code}?model=m *)
(* is a point of model m of that district, on the call that generates as   *)
(* on the calls that serve stored points.                                  *)
C27_ResponseOfRequestedModel ==
    call.op = "route_forecast_district" =>
        \A i \in 1..Len(call.rows) :
            \E r \in price_forecasts :
                /\ r.model_name = call.model
                /\ Point(_forecast_to_dict(r)) = Point(call.rows[i])

(* C29.  For a district with at least 4 observations the response of       *)
(* GET /forecast/{district_code}?periods=p has exactly p points, whatever   *)
(* horizon earlier generations used.                                       *)
C29_RequestedNumberOfPoints ==
    (/\ call.op = "route_forecast_district"
     /\ CallDistrict # 0
     /\ Enough(CallDistrict)) =>
        Len(call.rows) = call.periods


(* C28.  Forecast generations that run concurrently, also for the same     *)
(* district, all end without a storage error under every interleaving of   *)
(* their existence checks, inserts and commits, and leave one stored point  *)
(* per (district, model, year, quarter).                                   *)
C28_SameDistrictRace ==
    /\ \A w \in Workers : sessions[w].pc = "done" => ~sessions[w].raised
    /\ \A r1 \in price_forecasts, r2 \in price_forecasts :
          uq_forecast(r1) = uq_forecast(r2) => r1 = r2


----------------------------------------------------------------------------
(* The background scheduler (scheduler.py) *)

\* the scheduler objects one process creates
MaxSchedulers == 2

\* a scheduler as its constructor leaves it: stopped, with no job
BackgroundScheduler == [running |-> FALSE, jobs |-> {}]

\* add_job with replace_existing: one job per id
add_job(scheduler, id) == [scheduler EXCEPT !.jobs = @ \cup {id}]

start(scheduler) == [scheduler EXCEPT !.running = TRUE]

shutdown(scheduler) == [scheduler EXCEPT !.running = FALSE]

\* _scheduler and _scheduler.running: the module global is the object created last
SchedulerRunning(objects) ==
    /\ objects # <<>>
    /\ objects[Len(objects)].running

\* the object start_scheduler builds and starts
StartedScheduler ==
    start(add_job(add_job(BackgroundScheduler, "daily_ine_update"),
                  "weekly_full_update"))

\* variant: every enabled call builds and starts a scheduler
start_scheduler_unguarded(enabled, objects) ==
    IF ~enabled THEN objects ELSE Append(objects, StartedScheduler)

\* start_scheduler: the scheduler objects after the call
start_scheduler(enabled, objects) ==
    IF ~enabled THEN objects
    ELSE IF SchedulerRunning(objects) THEN objects
    ELSE Append(objects, StartedScheduler)

\* stop_scheduler: the scheduler objects after the call
stop_scheduler(objects) ==
    IF SchedulerRunning(objects)
    THEN [objects EXCEPT ![Len(objects)] = shutdown(@)]
    ELSE objects

\* the application calls start_scheduler
StartScheduler ==
    /\ call.op = "none"
    /\ Len(start_scheduler(scheduler_enabled, schedulers)) <= MaxSchedulers
    /\ schedulers' = start_scheduler(scheduler_enabled, schedulers)
    /\ call' = [NoCall EXCEPT !.op = "start_scheduler"]
    /\ UNCHANGED <<sale_prices, sarimax, price_forecasts, clock,
                   background_tasks, sessions, district_table, seed,
                   scheduler_enabled>>

\* the application calls stop_scheduler
StopScheduler ==
    /\ call.op = "none"
    /\ schedulers' = stop_scheduler(schedulers)
    /\ call' = [NoCall EXCEPT !.op = "stop_scheduler"]
    /\ UNCHANGED <<sale_prices, sarimax, price_forecasts, clock,
                   background_tasks, sessions, district_table, seed,
                   scheduler_enabled>>

\* a running scheduler holds the job id
Due(id) ==
    \E i \in 1..Len(schedulers) :
        schedulers[i].running /\ id \in schedulers[i].jobs

\* a job ended: its try block logs what it raised and the job returns
Logged(op, exit) ==
    /\ price_forecasts' = exit.table
    /\ call' = [NoCall EXCEPT !.op = op, !.before = price_forecasts, !.now = clock,
                              !.status = IF exit.raised THEN "failed" ELSE "complete"]
    /\ clock' = IF exit.table = price_forecasts THEN clock ELSE clock + 1
    /\ UNCHANGED <<sale_prices, sarimax>>

\* the daily job: the index and mortgage tables are outside this model
_daily_ine_update ==
    /\ Due("daily_ine_update")
    /\ call.op = "none"
    /\ \E failed \in BOOLEAN :
           Logged("_daily_ine_update", [table |-> price_forecasts, raised |-> failed])
    /\ UNCHANGED elsewhere

\* the weekly job: the data update, then forecasts of every district over
\* the longest horizon; a failed update skips the forecasts
_weekly_full_update ==
    /\ Due("weekly_full_update")
    /\ call.op = "none"
    /\ clock < MaxOps
    /\ \/ Logged("_weekly_full_update", [table |-> price_forecasts, raised |-> TRUE])
       \/ \E fault \in {NoFault, CommitFault} :
              Logged("_weekly_full_update",
                     db_session(ForEachDistrict(SessionLocal(price_forecasts), 1,
                                                NoResults, MaxPeriods, fault, clock),
                                fault.at = "commit"))
    /\ UNCHANGED elsewhere

\* the setting is read from the environment when the process starts
SchedInit ==
    /\ \E first \in 0..2, step \in 1..2 :
          sale_prices = [d \in DistrictIds |-> SampleSeries[((first + step * d) % 3) + 1]]
    /\ sarimax \in [DistrictIds -> SarimaxOutcomes]
    /\ \A d \in DistrictIds :
          Values(sale_prices[d]) \in ShortValues => sarimax[d] = SarimaxRaises
    /\ price_forecasts = {}
    /\ clock = 0
    /\ call = NoCall
    /\ background_tasks = <<>>
    /\ sessions = [w \in Workers |-> NoSession]
    /\ district_table = DistrictIds
    /\ seed = NoSeed
    /\ scheduler_enabled \in BOOLEAN
    /\ schedulers = <<>>

SchedNext ==
    \/ StartScheduler
    \/ StopScheduler
    \/ _daily_ine_update
    \/ _weekly_full_update
    \/ Return

SpecSched == SchedInit /\ [][SchedNext]_vars

\* the running scheduler objects
RunningSchedulers(objects) == {i \in 1..Len(objects) : objects[i].running}

(* C22.  With the setting disabled no scheduler object is ever created.    *)
(* With it enabled, a start_scheduler call ends with exactly one running   *)
(* scheduler that holds exactly the jobs daily_ine_update and              *)
(* weekly_full_update, and changes nothing when one was running already.   *)
(* A stop_scheduler call ends with no running scheduler, and changes       *)
(* nothing when none was running.                                          *)
C22_GatedIdempotentStart ==
    [][/\ ~scheduler_enabled' => schedulers' = <<>>
       /\ (call.op = "none" /\ call'.op = "start_scheduler" /\ scheduler_enabled)
              => /\ Cardinality(RunningSchedulers(schedulers')) = 1
                 /\ \A i \in RunningSchedulers(schedulers') :
                        schedulers'[i].jobs = {"daily_ine_update", "weekly_full_update"}
                 /\ RunningSchedulers(schedulers) # {} => schedulers' = schedulers
       /\ (call.op = "none" /\ call'.op = "stop_scheduler")
              => /\ RunningSchedulers(schedulers') = {}
                 /\ RunningSchedulers(schedulers) = {} => schedulers' = schedulers
                 /\ Len(schedulers') = Len(schedulers)
                 /\ \A i \in 1..Len(schedulers) : schedulers'[i].jobs = schedulers[i].jobs
      ]_vars

\* a second start_scheduler call was made while the scheduler of an earlier
\* call, made after a stop, was running
C22_Witness ==
    /\ call.op = "start_scheduler"
    /\ scheduler_enabled
    /\ Len(schedulers) = 2
    /\ ~schedulers[1].running
    /\ schedulers[2].running

============================================================================
